---- MODULE Spec2Model ----
(***************************************************************************)
(* A model of coin1.py: the SEPA indicator / scoring engine                *)
(* (calculate_technical_indicators, check_sepa_conditions, analyze_coin)   *)
(* and the thread-pool scan that ranks the universe (analyze_all_coins).   *)
(*                                                                         *)
(* Prices are integers (KRW quotes).  For integer prices below 2^31 every  *)
(* rolling sum is exact in a double and two moving averages that differ    *)
(* differ by far more than one unit in the last place, so the comparisons  *)
(* of the code are modelled by exact comparisons of window sums.  The      *)
(* weighted score is the one place where rounding decides the value; it is *)
(* modelled in IEEE-754 binary64 arithmetic, bit for bit.                  *)
(***************************************************************************)
EXTENDS Integers, Sequences, FiniteSets, TLC

VARIABLES
    py_sum,      \* how the interpreter's built-in sum() adds floats
    criteria,    \* check_sepa_conditions: the criteria dict
    score,       \* check_sepa_conditions: the score, a binary64 value
    sc_pc,       \* position in the scoring step
    a_fetch,     \* analyze_coin: what pyupbit.get_ohlcv does for the symbol
    df,          \* analyze_coin: the data frame (None before the fetch)
    a_pc,        \* analyze_coin: position in the call
    a_ret,       \* analyze_coin: the returned value (Pending before return)
    symbols,     \* analyze_all_coins: the tickers, in enumeration order
    market,      \* what the data provider does for each ticker
    pc,          \* analyze_all_coins: position of the main thread
    queue,       \* the executor's work queue (FIFO)
    threads,     \* the number of worker threads the executor has started
    busy,        \* the tasks being run by a worker thread
    future,      \* future_to_coin: per submitted task, Pending or its result
    calls,       \* per ticker, how often analyze_coin was invoked for it
    cursor,      \* the position of the collecting loop in future_to_coin
    completed,   \* the completed count shown by the progress bar
    sepa_coins,  \* the collected results
    outcome      \* what analyze_all_coins returns (Pending before return)

(***************************************************************************)
(* IEEE-754 binary64, for values in [0, 2).  A value is <<h, l>>, standing *)
(* for (h * 2^28 + l) * 2^-56 with 0 <= l < 2^28.  Every weight of the     *)
(* table is a multiple of 2^-56, so sums are exact before rounding.        *)
(***************************************************************************)
Limb == 2^28

FZero == <<0, 0>>

FOne == <<Limb, 0>>

\* The spacing of binary64 values at v, in units of 2^-56.
FUlp(v) ==
    IF v[1] >= Limb THEN 16
    ELSE IF v[1] >= Limb \div 2 THEN 8
    ELSE IF v[1] >= Limb \div 4 THEN 4
    ELSE IF v[1] >= Limb \div 8 THEN 2
    ELSE 1

FNorm(h, l) == <<h + (l \div Limb), l % Limb>>

\* Round-to-nearest, ties-to-even, of the exact value v + frac/100 units.
FRoundFrac(v, frac) ==
    LET u    == FUlp(v)
        r    == v[2] % u
        down == v[2] - r
        odd  == ((v[2] \div u) % 2) = 1
        up   == \/ 100 * r + frac > 50 * u
                \/ (100 * r + frac = 50 * u /\ odd)
    IN  IF up THEN FNorm(v[1], down + u) ELSE <<v[1], down>>

FRound(v) == FRoundFrac(v, 0)

\* The exact sum of two values, not yet rounded.
FExactAdd(a, b) == FNorm(a[1] + b[1], a[2] + b[2])

\* a + b as the hardware computes it.
FAdd(a, b) == FRound(FExactAdd(a, b))

FLess(a, b) == a[1] < b[1] \/ (a[1] = b[1] /\ a[2] < b[2])

FLeq(a, b) == a = b \/ FLess(a, b)

\* | a - b | in units of 2^-56, capped at one limb (2^-28)
FDist(a, b) ==
    IF a[1] - b[1] > 1 \/ b[1] - a[1] > 1 THEN Limb
    ELSE LET x == (a[1] - b[1]) * Limb + (a[2] - b[2])
             y == IF x < 0 THEN -x ELSE x
         IN  IF y > Limb THEN Limb ELSE y

\* The binary64 value of the decimal literal e/100 (0 <= e <= 100): long
\* division of e * 2^56 by 100 in base 2^14, then one rounding.
FDecimal(e) ==
    LET D  == 2^14
        d1 == (e * D) \div 100
        r1 == (e * D) % 100
        d2 == (r1 * D) \div 100
        r2 == (r1 * D) % 100
        d3 == (r2 * D) \div 100
        r3 == (r2 * D) % 100
        d4 == (r3 * D) \div 100
        r4 == (r3 * D) % 100
    IN  FRoundFrac(<<d1 * D + d2, d3 * D + d4>>, r4)

(***************************************************************************)
(* check_sepa_conditions: criteria keys (in dict order) and weights.       *)
(***************************************************************************)
CriteriaKeys ==
    << "close_above_MA200", "MA150_above_MA200", "MA50_above_MA150_MA200",
       "close_above_MA5", "MA200_rising", "above_52w_low_30pct" >>

CriteriaSet == { CriteriaKeys[i] : i \in 1..Len(CriteriaKeys) }

\* a weights dict whose 0.15 branch tests only the first of its two keys
weights_first_key_only(k) ==
    IF k \in {"close_above_MA200", "MA200_rising", "above_52w_low_30pct"}
    THEN 20
    ELSE IF k = "MA150_above_MA200" THEN 15 ELSE 10

\* The weights dict, in hundredths as the literals are written.
weights(k) ==
    IF k \in {"close_above_MA200", "MA200_rising", "above_52w_low_30pct"}
    THEN 20
    ELSE IF k = "MA150_above_MA200" \/ k = "MA50_above_MA150_MA200"
         THEN 15
         ELSE 10

\* The float the interpreter holds for a weight literal.
WeightValue(k) == FDecimal(weights(k))

\* CPython < 3.12: sum() adds left to right, rounding after each addition.
\* CPython >= 3.12: sum() is compensated; with these operands the
\* compensation term is exact, so the result is the exact sum rounded once.
SumModes == {"sequential", "compensated"}

RECURSIVE SumSequential(_, _, _)
SumSequential(c, i, acc) ==
    IF i > Len(CriteriaKeys) THEN acc
    ELSE SumSequential(c, i + 1,
            IF c[CriteriaKeys[i]] THEN FAdd(acc, WeightValue(CriteriaKeys[i]))
            ELSE acc)

RECURSIVE SumExact(_, _, _)
SumExact(c, i, acc) ==
    IF i > Len(CriteriaKeys) THEN acc
    ELSE SumExact(c, i + 1,
            IF c[CriteriaKeys[i]] THEN FExactAdd(acc, WeightValue(CriteriaKeys[i]))
            ELSE acc)

\* score = sum(weights[k] for k, v in criteria.items() if v)
WeightedScore(c, mode) ==
    IF mode = "sequential" THEN SumSequential(c, 1, FZero)
    ELSE FRound(SumExact(c, 1, FZero))

(***************************************************************************)
(* Data frames.  A row is a daily candle [close, low]; volume, open and    *)
(* high feed only the display strings of the result and decide nothing     *)
(* here.  The frame records whether the MA columns have been added; their  *)
(* content is a function of the close column and is read through MA.       *)
(***************************************************************************)
\* Python's None, and a call that has not returned yet
None == [kind |-> "None"]

Pending == [kind |-> "pending"]

FetchCount == 252

MinHistory == 200

MonthOffset == 30

YearWindow == 252

Min(a, b) == IF a < b THEN a ELSE b

Max(a, b) == IF a > b THEN a ELSE b

\* the sum of close over rows lo..hi (halving keeps the evaluation shallow)
RECURSIVE SumClose(_, _, _)
SumClose(rows, lo, hi) ==
    IF lo > hi THEN 0
    ELSE IF lo = hi THEN rows[lo].close
    ELSE LET mid == (lo + hi) \div 2
         IN  SumClose(rows, lo, mid) + SumClose(rows, mid + 1, hi)

\* df["low"].tail(252).min() over rows lo..hi
RECURSIVE MinLow(_, _, _)
MinLow(rows, lo, hi) ==
    IF lo = hi THEN rows[lo].low
    ELSE LET mid == (lo + hi) \div 2
         IN  Min(MinLow(rows, lo, mid), MinLow(rows, mid + 1, hi))

\* df["close"].rolling(window=w).mean() at row i: NaN for the first w-1
\* rows, else the window sum over w (kept as the pair sum, w).
MA(rows, i, w) ==
    IF i < w THEN [nan |-> TRUE, sum |-> 0, w |-> w]
    ELSE [nan |-> FALSE, sum |-> SumClose(rows, i - w + 1, i), w |-> w]

\* a plain price as a mean over a window of one
Price(p) == [nan |-> FALSE, sum |-> p, w |-> 1]

\* x > y on floats: false when either side is NaN
Gt(x, y) == ~x.nan /\ ~y.nan /\ x.sum * y.w > y.sum * x.w

\* calculate_technical_indicators: adds MA5, MA50, MA150, MA200
calculate_technical_indicators(frame) == [frame EXCEPT !.ma = TRUE]

\* (latest["close"] / year_low - 1) > 0.3 in binary64.  A zero low gives
\* inf (or NaN for 0/0) with a warning, not an exception.  When the
\* quotient is exactly 1.3 the rounded quotient is above the literal 0.3
\* after the subtraction, so the boundary counts as above.
AboveYearLow(close, year_low) ==
    IF year_low > 0 THEN 10 * close >= 13 * year_low
    ELSE IF year_low = 0 THEN close > 0
    ELSE 10 * close <= 13 * year_low

\* df.iloc[-31] in place of df.iloc[-30]
MonthAgo_one_row_early(n) == n - MonthOffset

\* df.iloc[-30], as a row number counted from 1
MonthAgo(n) == n - MonthOffset + 1

EvalCriteria(rows) ==
    LET n         == Len(rows)
        latest    == n
        month_ago == MonthAgo(n)
        year_low  == MinLow(rows, Max(1, n - YearWindow + 1), n)
        close     == Price(rows[latest].close)
        MA5       == MA(rows, latest, 5)
        MA50      == MA(rows, latest, 50)
        MA150     == MA(rows, latest, 150)
        MA200     == MA(rows, latest, 200)
    IN  [k \in CriteriaSet |->
            CASE k = "close_above_MA200"      -> Gt(close, MA200)
              [] k = "MA150_above_MA200"      -> Gt(MA150, MA200)
              [] k = "MA50_above_MA150_MA200" -> Gt(MA50, MA150) /\ Gt(MA50, MA200)
              [] k = "close_above_MA5"        -> Gt(close, MA5)
              [] k = "MA200_rising"           -> Gt(MA200, MA(rows, month_ago, 200))
              [] k = "above_52w_low_30pct"    -> AboveYearLow(rows[latest].close, year_low)]

NoCriteria == [k \in {} |-> FALSE]

\* check_sepa_conditions with the length test off by one
check_sepa_conditions_off_by_one(frame, mode) ==
    IF frame = None \/ Len(frame.rows) < MinHistory - 1
    THEN [meets |-> FALSE, criteria |-> NoCriteria, score |-> FZero]
    ELSE LET c == EvalCriteria(frame.rows)
         IN  [meets |-> TRUE, criteria |-> c, score |-> WeightedScore(c, mode)]

\* check_sepa_conditions(df) -> (meets, criteria, score)
check_sepa_conditions(frame, mode) ==
    IF frame = None \/ Len(frame.rows) < MinHistory
    THEN [meets |-> FALSE, criteria |-> NoCriteria, score |-> FZero]
    ELSE LET c == EvalCriteria(frame.rows)
         IN  [meets |-> TRUE, criteria |-> c, score |-> WeightedScore(c, mode)]

\* the dict analyze_coin returns
Result(symbol, frame, chk) ==
    [kind     |-> "result",
     symbol   |-> symbol,
     close    |-> frame.rows[Len(frame.rows)].close,
     score    |-> chk.score,
     criteria |-> chk.criteria]

\* What the fetch hands back: an exception, None, or a frame (maybe empty).
Frame(rows) == [kind |-> "frame", rows |-> rows, ma |-> FALSE]

Raises == [kind |-> "raise"]

\* the emptiness test left out
FetchFails_ignores_empty(f) == f.kind \in {"raise", "None"}

\* df is None or df.empty, or get_ohlcv raised
FetchFails(f) == f.kind \in {"raise", "None"} \/ f.rows = << >>

\* analyze_coin without its try/except: what the fetch raises propagates
analyze_coin_uncaught(symbol, f, mode) ==
    IF f.kind = "raise" THEN Raises
    ELSE IF FetchFails(f) THEN None
    ELSE LET frame == calculate_technical_indicators(Frame(f.rows))
             chk   == check_sepa_conditions(frame, mode)
         IN  IF ~chk.meets THEN None ELSE Result(symbol, frame, chk)

\* analyze_coin(symbol), the whole call.  Every exception is caught and
\* turned into None, so the call never raises.
analyze_coin(symbol, f, mode) ==
    IF FetchFails(f) THEN None
    ELSE LET frame == calculate_technical_indicators(Frame(f.rows))
             chk   == check_sepa_conditions(frame, mode)
         IN  IF ~chk.meets THEN None ELSE Result(symbol, frame, chk)

scoreVars == <<criteria, score, sc_pc>>

assetVars == <<a_fetch, df, a_pc, a_ret>>

scanVars ==
    <<symbols, market, pc, queue, threads, busy, future, calls, cursor,
      completed, sepa_coins, outcome>>

vars == <<py_sum, scoreVars, assetVars, scanVars>>

\* the scan is not running
ScanIdle ==
    /\ symbols = << >> /\ market = << >> /\ pc = "idle" /\ queue = << >>
    /\ threads = 0 /\ busy = {} /\ future = << >> /\ calls = << >>
    /\ cursor = 0 /\ completed = 0 /\ sepa_coins = << >> /\ outcome = Pending

(***************************************************************************)
(* SpecScore: the scoring step on every combination of the six criteria.   *)
(***************************************************************************)
InitScore ==
    /\ py_sum \in SumModes
    /\ criteria \in [CriteriaSet -> BOOLEAN]
    /\ score = FZero
    /\ sc_pc = "criteria"
    /\ a_fetch = None /\ df = None /\ a_pc = "idle" /\ a_ret = Pending
    /\ ScanIdle

SumWeights ==
    /\ sc_pc = "criteria"
    /\ score' = WeightedScore(criteria, py_sum)
    /\ sc_pc' = "scored"
    /\ UNCHANGED <<py_sum, criteria, assetVars, scanVars>>

NextScore == SumWeights

SpecScore == InitScore /\ [][NextScore]_vars

(***************************************************************************)
(* SpecAsset: one call of analyze_coin, step by step, on a family of       *)
(* fetch outcomes: an exception, None, an empty frame, and price series    *)
(* of up to FetchCount days that run at d1 per day up to a break day and   *)
(* at d2 per day after it, with lows a fixed gap under the close and,      *)
(* optionally, one day whose recorded low is zero or negative.             *)
(***************************************************************************)
MaxStep == 2

Steps == (-1)..MaxStep

Lens ==
    { 1, MonthOffset - 1, MinHistory - 1, MinHistory,
      MinHistory + MonthOffset - 2, MinHistory + MonthOffset - 1, FetchCount }

Bases == {300, 1000}

Breaks == {100, 240}

Gaps == {0, 10}

Dips == { [on |-> FALSE, low |-> 0], [on |-> TRUE, low |-> 0],
          [on |-> TRUE, low |-> -7] }

SeriesRows(n, base, d1, d2, brk, gap, dip) ==
    [i \in 1..n |->
        LET c == base + d1 * Min(i - 1, brk) + d2 * Max(0, i - 1 - brk)
        IN  [close |-> c,
             low   |-> IF dip.on /\ i = Max(1, n - 3) THEN dip.low ELSE c - gap]]

FetchOutcomes ==
    {Raises, None, Frame(<< >>)}
    \cup { Frame(SeriesRows(n, base, d1, d2, brk, gap, dip)) :
             n \in Lens, base \in Bases, d1 \in Steps, d2 \in Steps,
             brk \in Breaks, gap \in Gaps, dip \in Dips }

TheSymbol == "KRW-BTC"

InitAsset ==
    /\ py_sum \in SumModes
    /\ a_fetch \in FetchOutcomes
    /\ df = None
    /\ a_pc = "call"
    /\ a_ret = Pending
    /\ criteria = NoCriteria
    /\ score = FZero
    /\ sc_pc = "idle"
    /\ ScanIdle

\* df = pyupbit.get_ohlcv(...); if df is None or df.empty: return None
\* (an exception lands in the except clause, which also returns None)
FetchCandles ==
    /\ a_pc = "call"
    /\ IF FetchFails(a_fetch)
       THEN /\ a_pc' = "FetchFailed"
            /\ a_ret' = None
            /\ df' = IF a_fetch.kind = "frame" THEN a_fetch ELSE None
       ELSE /\ a_pc' = "Fetched"
            /\ df' = a_fetch
            /\ UNCHANGED a_ret
    /\ UNCHANGED <<py_sum, scoreVars, a_fetch, scanVars>>

\* df = calculate_technical_indicators(df)
ComputeIndicators ==
    /\ a_pc = "Fetched"
    /\ df' = calculate_technical_indicators(df)
    /\ a_pc' = "IndicatorsComputed"
    /\ UNCHANGED <<py_sum, scoreVars, a_fetch, a_ret, scanVars>>

\* meets_criteria, criteria, score = check_sepa_conditions(df)
\* if not meets_criteria: return None
CheckSepa ==
    /\ a_pc = "IndicatorsComputed"
    /\ LET chk == check_sepa_conditions(df, py_sum)
       IN  IF ~chk.meets
           THEN /\ a_pc' = "Rejected"
                /\ a_ret' = None
                /\ UNCHANGED <<criteria, score>>
           ELSE /\ a_pc' = "Scored"
                /\ criteria' = chk.criteria
                /\ score' = chk.score
                /\ UNCHANGED a_ret
    /\ UNCHANGED <<py_sum, sc_pc, a_fetch, df, scanVars>>

\* the characteristics are computed and the dict is returned
Emit ==
    /\ a_pc = "Scored"
    /\ a_ret' = Result(TheSymbol, df, [criteria |-> criteria, score |-> score])
    /\ a_pc' = "Emitted"
    /\ UNCHANGED <<py_sum, scoreVars, a_fetch, df, scanVars>>

NextAsset == FetchCandles \/ ComputeIndicators \/ CheckSepa \/ Emit

SpecAsset == InitAsset /\ [][NextAsset]_vars

(***************************************************************************)
(* Spec: analyze_all_coins.  The main thread submits one task per ticker   *)
(* to a ThreadPoolExecutor(max_workers=5), then walks the futures in       *)
(* submission order, blocking on each, and finally sorts what it kept.     *)
(* Worker threads take tasks from the queue in FIFO order and run          *)
(* analyze_coin; they run concurrently with the main thread.               *)
(***************************************************************************)
max_workers == 5

MaxSymbols == 6

MaxRanked == 4

\* What the provider can hand back for a ticker of the scanned universe.
Catalogue ==
    [ raise  |-> Raises,
      short  |-> Frame(SeriesRows(MinHistory - 1, 300, 1, 1, 100, 10, [on |-> FALSE, low |-> 0])),
      rising |-> Frame(SeriesRows(FetchCount, 300, 1, 1, 100, 10, [on |-> FALSE, low |-> 0])),
      flat   |-> Frame(SeriesRows(FetchCount, 300, 0, 0, 100, 10, [on |-> FALSE, low |-> 0])) ]

CatalogueKeys == DOMAIN Catalogue

\* analyze_coin on each entry of the catalogue, evaluated once
Analysis ==
    [m \in SumModes |-> [k \in CatalogueKeys |-> analyze_coin(0, Catalogue[k], m)]]

\* the value the worker stores in the future of task t
RunTask(t, k, mode) ==
    LET r == Analysis[mode][k]
    IN  IF r.kind = "result" THEN [r EXCEPT !.symbol = t] ELSE r

\* a universe of at most maxN tickers, each served one of the given ways
InitScan(keys, maxN, modes) ==
    /\ py_sum \in modes
    /\ \E n \in 0..maxN :
          /\ symbols = [i \in 1..n |-> i]
          /\ market \in [1..n -> keys]
          /\ calls = [i \in 1..n |-> 0]
    /\ pc = "start"
    /\ queue = << >>
    /\ threads = 0
    /\ busy = {}
    /\ future = << >>
    /\ cursor = 0
    /\ completed = 0
    /\ sepa_coins = << >>
    /\ outcome = Pending
    /\ criteria = NoCriteria /\ score = FZero /\ sc_pc = "idle"
    /\ a_fetch = None /\ df = None /\ a_pc = "idle" /\ a_ret = Pending

\* symbols = get_krw_tickers(); if not symbols: return None
GetTickers ==
    /\ pc = "start"
    /\ IF symbols = << >>
       THEN pc' = "done" /\ outcome' = None
       ELSE pc' = "submit" /\ UNCHANGED outcome
    /\ UNCHANGED <<py_sum, scoreVars, assetVars, symbols, market, queue, threads,
                   busy, future, calls, cursor, completed, sepa_coins>>

\* a pool that starts one thread more than max_workers
Submit_one_thread_more ==
    /\ pc = "submit"
    /\ LET t == Len(future) + 1
       IN  /\ queue' = Append(queue, t)
           /\ future' = Append(future, Pending)
           /\ threads' = IF threads <= max_workers THEN threads + 1 ELSE threads
           /\ IF t = Len(symbols)
              THEN pc' = "collect" /\ cursor' = 1 /\ completed' = 0
              ELSE UNCHANGED <<pc, cursor, completed>>
    /\ UNCHANGED <<py_sum, scoreVars, assetVars, symbols, market, busy, calls,
                   sepa_coins, outcome>>

\* executor.submit(analyze_coin, symbol): the task joins the queue and a
\* thread is started unless max_workers of them exist
Submit ==
    /\ pc = "submit"
    /\ LET t == Len(future) + 1
       IN  /\ queue' = Append(queue, t)
           /\ future' = Append(future, Pending)
           /\ threads' = IF threads < max_workers THEN threads + 1 ELSE threads
           /\ IF t = Len(symbols)
              THEN pc' = "collect" /\ cursor' = 1 /\ completed' = 0
              ELSE UNCHANGED <<pc, cursor, completed>>
    /\ UNCHANGED <<py_sum, scoreVars, assetVars, symbols, market, busy, calls,
                   sepa_coins, outcome>>

\* an idle worker thread takes the task at the head of the queue
WorkerTake ==
    /\ queue # << >>
    /\ Cardinality(busy) < threads
    /\ busy' = busy \cup {Head(queue)}
    /\ calls' = [calls EXCEPT ![Head(queue)] = @ + 1]
    /\ queue' = Tail(queue)
    /\ UNCHANGED <<py_sum, scoreVars, assetVars, symbols, market, pc, threads,
                   future, cursor, completed, sepa_coins, outcome>>

\* the worker's analyze_coin call returns and the future is resolved
WorkerFinish ==
    \E t \in busy :
        /\ future' = [future EXCEPT ![t] = RunTask(symbols[t], market[t], py_sum)]
        /\ busy' = busy \ {t}
        /\ UNCHANGED <<py_sum, scoreVars, assetVars, symbols, market, pc, queue,
                       threads, calls, cursor, completed, sepa_coins, outcome>>

\* a loop that counts an asset as completed only when it kept its result
Collect_counts_kept_only ==
    /\ pc = "collect"
    /\ future[cursor] # Pending
    /\ LET result == future[cursor]
       IN  IF result.kind = "raise"
           THEN /\ pc' = "raised"
                /\ UNCHANGED <<cursor, completed, sepa_coins>>
           ELSE /\ sepa_coins' = IF result # None THEN Append(sepa_coins, result)
                                 ELSE sepa_coins
                /\ completed' = IF result # None THEN completed + 1 ELSE completed
                /\ cursor' = cursor + 1
                /\ pc' = IF cursor = Len(symbols) THEN "rank" ELSE "collect"
    /\ UNCHANGED <<py_sum, scoreVars, assetVars, symbols, market, queue, threads,
                   busy, future, calls, outcome>>

\* one round of "for future in future_to_coin": result() blocks until the
\* future is resolved and re-raises what the task raised
Collect ==
    /\ pc = "collect"
    /\ future[cursor] # Pending
    /\ LET result == future[cursor]
       IN  IF result.kind = "raise"
           THEN /\ pc' = "raised"
                /\ UNCHANGED <<cursor, completed, sepa_coins>>
           ELSE \* (get_coin_characteristics only rewrites the display
                \* strings of a kept result)
                /\ sepa_coins' = IF result # None THEN Append(sepa_coins, result)
                                 ELSE sepa_coins
                /\ completed' = completed + 1
                /\ cursor' = cursor + 1
                /\ pc' = IF cursor = Len(symbols) THEN "rank" ELSE "collect"
    /\ UNCHANGED <<py_sum, scoreVars, assetVars, symbols, market, queue, threads,
                   busy, future, calls, outcome>>

Descending(rows) ==
    \A i \in 1..(Len(rows) - 1) : FLeq(rows[i + 1].score, rows[i].score)

\* sort_values("SEPA점수", ascending=False) with the default kind, quicksort,
\* which is not stable: any descending arrangement of the rows may result
SortValues(rows) ==
    { [i \in 1..Len(rows) |-> rows[p[i]]] : p \in
        { q \in Permutations(1..Len(rows)) :
            \A i \in 1..(Len(rows) - 1) : FLeq(rows[q[i + 1]].score, rows[q[i]].score) } }

\* the frame is built and sorted whether or not anything was kept
Rank_always_a_frame ==
    /\ pc = "rank"
    /\ \E sorted \in SortValues(sepa_coins) :
            outcome' = [kind |-> "frame", rows |-> sorted]
    /\ pc' = "done"
    /\ UNCHANGED <<py_sum, scoreVars, assetVars, symbols, market, queue, threads,
                   busy, future, calls, cursor, completed, sepa_coins>>

\* if sepa_coins: return the sorted frame; else return None
Rank ==
    /\ pc = "rank"
    /\ IF sepa_coins # << >>
       THEN \E sorted \in SortValues(sepa_coins) :
                outcome' = [kind |-> "frame", rows |-> sorted]
       ELSE outcome' = None
    /\ pc' = "done"
    /\ UNCHANGED <<py_sum, scoreVars, assetVars, symbols, market, queue, threads,
                   busy, future, calls, cursor, completed, sepa_coins>>

Next == GetTickers \/ Submit \/ WorkerTake \/ WorkerFinish \/ Collect \/ Rank

\* universes that mix fetch failures, short histories and eligible assets
\* (the scores of these entries are the same under either summation)
Init == InitScan({"raise", "short", "rising"}, MaxSymbols, {"sequential"})

Spec == Init /\ [][Next]_vars

\* universes of assets with different and with equal scores
InitRank == InitScan({"short", "rising", "flat"}, MaxRanked, SumModes)

SpecRank == InitRank /\ [][Next]_vars

(***************************************************************************)
(* Properties                                                              *)
(***************************************************************************)
\* the rows of the returned frame (none when None was returned)
OutcomeRows == IF outcome.kind = "frame" THEN outcome.rows ELSE << >>

Provided(i) == Catalogue[market[i]]

FailedAtFetch == { i \in 1..Len(symbols) : FetchFails(Provided(i)) }

Ineligible ==
    { i \in 1..Len(symbols) :
        ~FetchFails(Provided(i)) /\ Len(Provided(i).rows) < MinHistory }

Remaining == (1..Len(symbols)) \ (FailedAtFetch \cup Ineligible)

\* C1: whatever the mix of fetch failures and ineligible assets and however
\* the workers interleave, no asset aborts the scan (no exception reaches
\* the main thread and the scan can always take a step until it returns),
\* and the outcome holds exactly the N - k - m remaining assets, each once.
C1_ScanKeepsTheRest ==
    /\ pc # "raised"
    /\ pc # "done" => ENABLED Next
    /\ pc = "done" =>
          /\ Len(OutcomeRows) =
                Len(symbols) - Cardinality(FailedAtFetch) - Cardinality(Ineligible)
          /\ \A i \in Remaining :
                Cardinality({ j \in 1..Len(OutcomeRows) : OutcomeRows[j].symbol = i }) = 1
          /\ \A j \in 1..Len(OutcomeRows) : OutcomeRows[j].symbol \in Remaining

C1_Witness ==
    /\ pc = "done"
    /\ Cardinality(FailedAtFetch) >= 1
    /\ Cardinality(Ineligible) >= 1
    /\ Len(OutcomeRows) >= 2

\* C2: the returned frame is in descending order of score, and rows of
\* equal score keep the order of their tickers in the universe.
C2_StableRanking ==
    pc = "done" =>
        /\ Descending(OutcomeRows)
        /\ \A i, j \in 1..Len(OutcomeRows) :
              (i < j /\ OutcomeRows[i].score = OutcomeRows[j].score)
                  => OutcomeRows[i].symbol < OutcomeRows[j].symbol

\* the weight table of the specification, in hundredths
TableWeight ==
    [ close_above_MA200      |-> 20,
      MA200_rising           |-> 20,
      above_52w_low_30pct    |-> 20,
      MA150_above_MA200      |-> 15,
      MA50_above_MA150_MA200 |-> 15,
      close_above_MA5        |-> 10 ]

RECURSIVE TableSum(_, _)
TableSum(c, i) ==
    IF i > Len(CriteriaKeys) THEN 0
    ELSE (IF c[CriteriaKeys[i]] THEN TableWeight[CriteriaKeys[i]] ELSE 0)
         + TableSum(c, i + 1)

AllTrue(c) == \A k \in CriteriaSet : c[k]

C4_CompletedCount ==
    /\ [][ /\ completed' >= completed
           /\ completed' # completed =>
                 /\ completed' = completed + 1
                 /\ cursor' = cursor + 1
                 /\ future[cursor] # Pending
                 /\ completed' <= Len(symbols)
           /\ (pc = "collect" /\ cursor' # cursor) => completed' = completed + 1
         ]_vars
    /\ [](completed <= Cardinality({ i \in 1..Len(future) : future[i] # Pending }))
    /\ [](pc = "done" => completed = Len(symbols))

C4_Witness ==
    /\ pc = "done"
    /\ completed = Len(symbols)
    /\ FailedAtFetch # {} /\ Ineligible # {} /\ Remaining # {}

\* C5: at most 5 analyses are in flight at any moment, no ticker is
\* analysed twice, and when the scan returns every ticker was analysed once.
C5_BoundedPool ==
    /\ Cardinality(busy) <= 5
    /\ \A i \in 1..Len(symbols) : calls[i] <= 1
    /\ pc = "done" => \A i \in 1..Len(symbols) : calls[i] = 1

\* five analyses in flight while a sixth task waits in the queue
C5_Witness == Cardinality(busy) = 5 /\ queue # << >>

NothingToRank == Remaining = {}

EmptyFrame == [kind |-> "frame", rows |-> << >>]

\* C6 as stated: with nothing to rank the scan returns an empty list of
\* results, not an absent value.
C6_EmptyOutcomeIsAList ==
    /\ pc # "raised"
    /\ (pc = "done" /\ NothingToRank) => outcome = EmptyFrame

\* C6 amended: with nothing to rank (an empty universe, or every asset
\* failed or ineligible) the scan returns without raising, and what it
\* returns is None.
C6_EmptyOutcomeIsNone ==
    /\ pc # "raised"
    /\ (pc # "done" /\ NothingToRank) => ENABLED Next
    /\ (pc = "done" /\ NothingToRank) => outcome = None
    /\ (pc = "done" /\ ~NothingToRank) => outcome.kind = "frame"

C6_Witness ==
    /\ pc = "done"
    /\ Len(symbols) >= 2
    /\ FailedAtFetch # {} /\ Ineligible # {} /\ NothingToRank
    /\ outcome = None

Terminal == {"Rejected", "Emitted", "FetchFailed"}

NoData(f) == f.kind # "frame" \/ Len(f.rows) = 0

\* C7 as stated: the call ends in exactly one of Rejected, Emitted and
\* FetchFailed, and what it returns after a failed fetch differs from the
\* absent result it returns for ineligible data.
C7_TypedFetchFailure ==
    /\ a_ret # Pending <=> a_pc \in Terminal
    /\ a_pc = "FetchFailed" => a_ret # None

\* C7 amended: the call ends in exactly one of the three outcomes
\* (FetchFailed when there is no data, Rejected when the history is
\* short, Emitted otherwise); it returns a result only when Emitted and
\* the same None after a failed fetch as for ineligible data.
C7_ThreeOutcomesOneNone ==
    /\ a_ret # Pending <=> a_pc \in Terminal
    /\ a_pc \in Terminal =>
          /\ a_pc = "FetchFailed" <=> NoData(a_fetch)
          /\ a_pc = "Rejected" <=> (~NoData(a_fetch) /\ Len(a_fetch.rows) < MinHistory)
          /\ a_pc = "Emitted" <=> a_ret # None
          /\ a_pc = "Emitted" => a_ret.kind = "result" /\ a_ret.symbol = TheSymbol
          /\ a_ret = analyze_coin(TheSymbol, a_fetch, py_sum)

C7_Witness == a_pc = "FetchFailed" /\ a_fetch = Raises /\ a_ret = None

ShortSeries == a_fetch.kind = "frame" /\ Len(a_fetch.rows) < MinHistory

\* C8: on a series of fewer than 200 days check_sepa_conditions reports
\* "not evaluable", the call returns None, cannot get stuck or raise on the
\* way, and no criteria or score are computed.
C8_ShortHistoryIsAbsent ==
    ShortSeries =>
        /\ a_pc \in {"call", "Fetched", "IndicatorsComputed", "FetchFailed", "Rejected"}
        /\ a_pc = "IndicatorsComputed" => ~check_sepa_conditions(df, py_sum).meets
        /\ a_pc \notin Terminal => ENABLED NextAsset
        /\ a_pc \in Terminal => a_ret = None
        /\ criteria = NoCriteria /\ score = FZero

C8_Witness ==
    /\ a_pc = "Rejected"
    /\ Len(df.rows) = 199
    /\ a_ret = None

YearLow(rows) == MinLow(rows, Max(1, Len(rows) - YearWindow + 1), Len(rows))

\* C9: an asset whose trailing 252-day low is zero or negative is rejected:
\* the call returns no result and computes no score for it.
C9_DegenerateLowRejected ==
    (a_pc \in Terminal /\ ~NoData(a_fetch) /\ YearLow(a_fetch.rows) <= 0) =>
        /\ a_ret = None
        /\ score = FZero

StrictlyIncreasing(rows) ==
    \A i \in 1..(Len(rows) - 1) : rows[i].close < rows[i + 1].close

MAOrdered(rows) ==
    LET n == Len(rows)
    IN  /\ Gt(MA(rows, n, 5), MA(rows, n, 50))
        /\ Gt(MA(rows, n, 50), MA(rows, n, 150))
        /\ Gt(MA(rows, n, 150), MA(rows, n, 200))

ScoredRising ==
    /\ a_pc \in {"Scored", "Emitted"}
    /\ StrictlyIncreasing(df.rows)

\* C10 as stated: on every strictly increasing series of at least 200 days
\* the "MA200 rising" criterion is true and MA5 > MA50 > MA150 > MA200.
C10_RisingFrom200Days ==
    ScoredRising => criteria["MA200_rising"] /\ MAOrdered(df.rows)

\* C10 amended: on a strictly increasing series of at least 200 days
\* MA5 > MA50 > MA150 > MA200 at the final day, and the "MA200 rising"
\* criterion is true exactly when the series has at least 229 days (the
\* row 30 from the end has no MA200 before that, and the criterion is
\* then false).
C10_RisingFrom229Days ==
    ScoredRising =>
        /\ MAOrdered(df.rows)
        /\ criteria["MA200_rising"] <=> Len(df.rows) >= 229

C10_Witness ==
    /\ ScoredRising
    /\ Len(df.rows) = 229
    /\ criteria["MA200_rising"]

====
